---- MODULE Spec2Model ----
(***************************************************************************)
(* Google Maps Bus Tracker (custom_components/google_maps_bus_tracker).    *)
(*                                                                         *)
(* The model covers the sensor platform's two service handlers (track_bus, *)
(* untrack_bus), the per-route BusTrackerCoordinator with its update       *)
(* operation and snapshot extraction, and the GoogleMapsAPI client.        *)
(*                                                                         *)
(* A service handler is a coroutine: every piece of it between two awaits  *)
(* is one atomic action, and other handlers and timers may run at each     *)
(* await.  The scheduling of refreshes is that of the base class           *)
(* DataUpdateCoordinator the code inherits from: a one-shot timer, armed   *)
(* when the first listener is added and again at the end of each refresh   *)
(* while listeners remain, disarmed when a refresh starts, when the last   *)
(* listener leaves and on shutdown.                                        *)
(***************************************************************************)
EXTENDS Integers, Sequences, FiniteSets, TLC

\* Number of service calls one behaviour may make (each call slot is used once).
MaxCalls == 2

Calls == 1..MaxCalls

----------------------------------------------------------------------------
(* Python values *)

\* A Python None (a record, so that it compares with dicts and datetimes).
None == [py_none |-> TRUE]

\* Python's dict.get(key, default) on a dict modelled as a function.
Get(d, key, default) == IF key \in DOMAIN d THEN d[key] ELSE default

\* The empty dict {}.
EmptyDict == [x \in {} |-> None]

\* A "lat,lon" string is modelled by the list str.split(',') makes of it; a
\* field is a number (in tenths of a degree), a non-numeric text or blank.
Num(v) == [kind |-> "num", val |-> v]
Txt == [kind |-> "text", val |-> 0]
Blank == [kind |-> "blank", val |-> 0]

\* "52.1,4.1"
InRange == <<Num(521), Num(41)>>
\* "95,0"
LatOutOfRange == <<Num(950), Num(0)>>
\* "52.1,-181"
LonOutOfRange == <<Num(521), Num(-1810)>>
\* "" : ''.split(',') is ['']
EmptyStr == <<Blank>>

\* Truthiness of a Python str.
Truthy(s) == s # EmptyStr

\* Route numbers are short strings; "" is the empty (or missing) one.
Routes == {"r1", "r2"}

\* The outcome of a Python call: a returned value or a raised exception.
Return(v) == [kind |-> "return", value |-> v]
Raise(e) == [kind |-> "raise", exc |-> e]

----------------------------------------------------------------------------
(* What the Directions endpoint can answer *)

WalkStep == [travel_mode |-> "WALKING"]

BusStep ==
  [travel_mode |-> "TRANSIT",
   transit_details |->
     [departure_stop |-> [name |-> "Central"],
      arrival_stop |-> [name |-> "Harbour"],
      line |-> [name |-> "City line", short_name |-> "42"],
      departure_time |-> [value |-> 1700000000],
      arrival_time |-> [value |-> 1700000600]]]

\* A TRANSIT step without transit details.
BareBusStep == [travel_mode |-> "TRANSIT"]

Body(steps) ==
  [status |-> "OK",
   routes |-> << [legs |-> << [duration |-> [value |-> 600], steps |-> steps] >>] >>]

BodyBus == Body(<<WalkStep, BusStep>>)
BodyWalkOnly == Body(<<WalkStep>>)
BodyBareBus == Body(<<BareBusStep, BusStep>>)
BodyNoRoutes == [status |-> "ZERO_RESULTS", routes |-> <<>>]
BodyOkNoRoutes == [status |-> "OK", routes |-> <<>>]
BodyDenied == [status |-> "REQUEST_DENIED", error_message |-> "denied", routes |-> <<>>]

\* What one HTTP GET can end in: a 2xx answer with a JSON body, a non-2xx
\* answer, a transport failure (aiohttp.ClientError) or any other fault
\* (a body that is not JSON, a timeout).
AllReplies ==
  { [transport |-> "2xx", body |-> b] :
      b \in {BodyBus, BodyWalkOnly, BodyBareBus, BodyOkNoRoutes, BodyNoRoutes, BodyDenied} }
  \cup { [transport |-> t, body |-> EmptyDict] : t \in {"non2xx", "client_error", "fault"} }

\* The replies the refreshes of the coordinators are run with: one that
\* brings a bus, and one failure of each kind.
Replies ==
  { [transport |-> "2xx", body |-> b] : b \in {BodyBus, BodyDenied} }
  \cup { [transport |-> t, body |-> EmptyDict] : t \in {"non2xx", "fault"} }

----------------------------------------------------------------------------
(* api.py: GoogleMapsAPI *)

\* The aiohttp.ClientSession objects are numbered in the order they are
\* created; each is "open" or "closed".  _session refers to one of them, or
\* is None.
NoSession == 0

\* _get_session: the session _session refers to, replaced by a new one when
\* there is none or it is closed; with the sessions created so far.
GetSession(ref, objs) ==
  IF ref = NoSession \/ objs[ref] = "closed"
    THEN [ref |-> Len(objs) + 1, objs |-> Append(objs, "open")]
    ELSE [ref |-> ref, objs |-> objs]

\* The body of the try block of get_directions: raise_for_status, json(),
\* the check of the status field.
RequestDirections(reply) ==
  IF reply.transport = "non2xx" \/ reply.transport = "client_error"
    THEN Raise("ClientError")
  ELSE IF reply.transport = "fault"
    THEN Raise("Exception")
  ELSE IF "status" \notin DOMAIN reply.body \/ reply.body.status # "OK"
    THEN Raise("GoogleMapsAPIError")
  ELSE Return(reply.body)

\* Variant: only the ClientError clause, any other exception passes through.
TranslateError_OnlyClientError(outcome) ==
  IF outcome.kind = "return" THEN outcome
  ELSE IF outcome.exc = "ClientError" THEN Raise("GoogleMapsAPIError")
  ELSE outcome

\* The except clauses of get_directions: ClientError first, then Exception
\* (which also catches the GoogleMapsAPIError raised inside the try block).
TranslateError(outcome) ==
  IF outcome.kind = "return" THEN outcome
  ELSE IF outcome.exc = "ClientError" THEN Raise("GoogleMapsAPIError")
  ELSE Raise("GoogleMapsAPIError")

\* How a call ended: "return", or the kind of the exception it raised.
FetchKind(outcome) == IF outcome.kind = "return" THEN "return" ELSE outcome.exc

\* get_directions, given what the HTTP GET ends in.
GetDirections(origin, destination, route_number, reply) ==
  IF ~(Truthy(origin) /\ Truthy(destination) /\ route_number # "")
    THEN Raise("ValueError")
    ELSE TranslateError(RequestDirections(reply))

----------------------------------------------------------------------------
(* sensor.py: BusTrackerCoordinator *)

\* datetime.fromtimestamp(ts, UTC).astimezone(Europe/Amsterdam): the same
\* instant, in the zone of Amsterdam.
ToDatetime(ts) == [epoch |-> ts, tz |-> "Europe/Amsterdam"]

\* Positions of the steps the scan of the generator expression stops at: a
\* TRANSIT step, or a step without travel_mode (a KeyError).
StopsAt(steps) ==
  { i \in DOMAIN steps :
      "travel_mode" \notin DOMAIN steps[i] \/ steps[i].travel_mode = "TRANSIT" }

Min(S) == CHOOSE m \in S : \A n \in S : m <= n

\* The dict built from the first TRANSIT step.
BusInfo(bus_step) ==
  LET transit_details == Get(bus_step, "transit_details", EmptyDict)
      departure_stop == Get(transit_details, "departure_stop", EmptyDict)
      line == Get(transit_details, "line", EmptyDict)
      departure_time == Get(transit_details, "departure_time", EmptyDict)
      has_timestamp == "value" \in DOMAIN departure_time /\ departure_time.value # 0
  IN [stop_name |-> Get(departure_stop, "name", "Unknown"),
      line_number |-> Get(line, "short_name", "Unknown"),
      next_departure |->
        IF has_timestamp THEN ToDatetime(departure_time.value) ELSE None]

\* The try block of _extract_bus_info: a missing key or an empty list on the
\* way to the first TRANSIT step raises.
TryExtractBusInfo(response) ==
  IF "routes" \notin DOMAIN response \/ response.routes = <<>> THEN Return(EmptyDict)
  ELSE LET route == response.routes[1] IN
    IF "legs" \notin DOMAIN route THEN Raise("KeyError")
    ELSE IF route.legs = <<>> THEN Raise("IndexError")
    ELSE LET leg == route.legs[1] IN
      IF "steps" \notin DOMAIN leg THEN Raise("KeyError")
      ELSE IF StopsAt(leg.steps) = {} THEN Return(EmptyDict)
      ELSE LET step == leg.steps[Min(StopsAt(leg.steps))] IN
        IF "travel_mode" \notin DOMAIN step THEN Raise("KeyError")
        ELSE Return(BusInfo(step))

\* _extract_bus_info: every exception inside ends in the empty dict.
ExtractBusInfo(response) ==
  LET extracted == TryExtractBusInfo(response)
  IN IF extracted.kind = "raise" THEN EmptyDict ELSE extracted.value

\* Variant: the failure is passed on to the base class as UpdateFailed.
OnFetchError_Raises(exc) == Raise("UpdateFailed")

\* What the except clauses of _async_update_data make of a failed fetch.
OnFetchError(exc) == Return(EmptyDict)

\* _async_update_data, given the outcome of get_directions.
AsyncUpdateData(fetched) ==
  IF fetched.kind = "return"
    THEN Return(ExtractBusInfo(fetched.value))
    ELSE OnFetchError(fetched.exc)

----------------------------------------------------------------------------
(* State *)

VARIABLES
  call,          \* the service calls: where each handler is, and how it ended
  coordinators,  \* hass.data[DOMAIN][entry_id]["coordinators"]: route -> coordinator
  coord,         \* the BusTrackerCoordinator objects constructed so far
  entities,      \* the sensors registered per route: route -> the coordinator they listen to
  session,       \* GoogleMapsAPI._session
  sessions,      \* the aiohttp.ClientSession objects created so far
  client,        \* the direct calls of the methods of GoogleMapsAPI
  probe          \* the last direct call of a function of the code, with its outcome

vars == <<call, coordinators, coord, entities, session, sessions, client, probe>>

\* The GoogleMapsAPI object, its sessions and the direct calls of its methods.
api == <<session, sessions, client>>

\* A step that calls _get_session.
UseSession ==
  /\ session' = GetSession(session, sessions).ref
  /\ sessions' = GetSession(session, sessions).objs
  /\ UNCHANGED client

\* dict[key] = value, dict.pop(key)
Put(d, key, value) == [x \in DOMAIN d \cup {key} |-> IF x = key THEN value ELSE d[x]]
Remove(d, key) == [x \in DOMAIN d \ {key} |-> d[x]]

\* The call data the track_bus service is called with.
TrackRequests ==
  { [route_number |-> r, origin |-> InRange, destination |-> InRange] : r \in Routes }
  \cup { [route_number |-> "r1", origin |-> LatOutOfRange, destination |-> InRange],
         [route_number |-> "r1", origin |-> InRange, destination |-> LonOutOfRange],
         [route_number |-> "r1", origin |-> EmptyStr, destination |-> InRange],
         [route_number |-> "r1", origin |-> InRange, destination |-> EmptyStr],
         [route_number |-> "", origin |-> InRange, destination |-> InRange] }

\* The route numbers the untrack_bus service is called with.
UntrackRoutes == Routes \cup {""}

NoProbe == [fn |-> "none"]

IdleCall == [pc |-> "idle", op |-> "none", route_number |-> "", first_fetch |-> "none",
             result |-> "none"]

\* BusTrackerCoordinator.__init__ (and DataUpdateCoordinator.__init__).
NewCoordinator(origin, destination, route_number) ==
  [route_number |-> route_number, origin |-> origin, destination |-> destination,
   data |-> None, last_update_success |-> TRUE, shutdown_requested |-> FALSE,
   timer |-> FALSE, scheduled |-> FALSE, fetching |-> 0, last_fetch |-> "none"]

\* The coordinator has listeners: sensors registered for it.
HasListeners(ents, c) == \E r \in DOMAIN ents : ents[r] = c

Init ==
  /\ call = [k \in Calls |-> IdleCall]
  /\ coordinators = EmptyDict
  /\ coord = EmptyDict
  /\ entities = EmptyDict
  /\ session = 1
  /\ sessions = <<"open">>
  /\ client = EmptyDict
  /\ probe = NoProbe

----------------------------------------------------------------------------
(* sensor.py: the track_bus service *)

\* Call slots are taken in order: k is the next service call to arrive.
NextCall(k) ==
  /\ call[k].pc = "idle"
  /\ \A j \in DOMAIN call : j < k => call[j].pc # "idle"

Finish(k, op, route_number, result) ==
  call' = [call EXCEPT ![k] = [@ EXCEPT !.pc = "done", !.op = op,
                                       !.route_number = route_number,
                                       !.result = result]]

\* Variant: only the route number is required.
MissingParameters_RouteOnly(req) == req.route_number = ""

\* not all([route_number, origin, destination])
MissingParameters(req) ==
  ~(req.route_number # "" /\ Truthy(req.origin) /\ Truthy(req.destination))

\* Variant: the membership test never finds the route.
IsTracked_Never(registry, route_number) == FALSE

\* route_number in hass.data[DOMAIN][entry_id]["coordinators"]
IsTracked(registry, route_number) == route_number \in DOMAIN registry

\* Variant: the coordinator is stored as soon as it is constructed.
RegistryDuringRefresh_Stored(registry, route_number, c) == Put(registry, route_number, c)

\* The registry while the first refresh is awaited: the coordinator is stored
\* only after the refresh and the adding of the sensors.
RegistryDuringRefresh(registry, route_number, c) == registry

\* async_handle_track_bus up to its await: the two guards, the construction of
\* the coordinator and the start of its first refresh, which calls
\* get_directions and waits for the HTTP answer.
TrackBus(k, req) ==
  /\ NextCall(k)
  /\ IF MissingParameters(req)
       THEN /\ Finish(k, "track", req.route_number, "MissingParameters")
            /\ UNCHANGED <<coordinators, coord, entities, api>>
     ELSE IF IsTracked(coordinators, req.route_number)
       THEN /\ Finish(k, "track", req.route_number, "AlreadyTracked")
            /\ UNCHANGED <<coordinators, coord, entities, api>>
     ELSE /\ coord' = Put(coord, k,
                [NewCoordinator(req.origin, req.destination, req.route_number)
                   EXCEPT !.fetching = 1])
          /\ UseSession
          /\ call' = [call EXCEPT ![k] = [@ EXCEPT !.pc = "first_refresh",
                                                   !.op = "track",
                                                   !.route_number = req.route_number]]
          /\ coordinators' = RegistryDuringRefresh(coordinators, req.route_number, k)
          /\ UNCHANGED entities
  /\ UNCHANGED probe

\* async_add_entities: the sensors of a route have unique ids made of the
\* route number, so sensors for a route that already has them are ignored;
\* the first listener of a coordinator arms its timer.
AddEntities(ents, route_number, c) ==
  IF route_number \in DOMAIN ents THEN ents ELSE Put(ents, route_number, c)

\* The rest of async_handle_track_bus, run when the HTTP answer arrives: the
\* first refresh stores what _async_update_data returns (and raises
\* ConfigEntryNotReady if it raised), then the sensors are added and the
\* coordinator is stored under its route number.
FirstRefreshDone(k, reply) ==
  /\ call[k].pc = "first_refresh"
  /\ LET c == coord[k]
         fetched == GetDirections(c.origin, c.destination, c.route_number, reply)
         update == AsyncUpdateData(fetched)
         fetch_kind == FetchKind(fetched)
     IN IF update.kind = "raise"
          THEN /\ coord' = [coord EXCEPT ![k] = [@ EXCEPT !.fetching = @ - 1,
                                                          !.last_fetch = fetch_kind,
                                                          !.last_update_success = FALSE]]
               /\ call' = [call EXCEPT ![k] = [@ EXCEPT !.pc = "done",
                                                        !.first_fetch = fetch_kind,
                                                        !.result = "ConfigEntryNotReady"]]
               /\ UNCHANGED <<coordinators, entities>>
          ELSE /\ entities' = AddEntities(entities, c.route_number, k)
               /\ coord' = [coord EXCEPT ![k] = [@ EXCEPT !.fetching = @ - 1,
                                                          !.data = update.value,
                                                          !.last_fetch = fetch_kind,
                                                          !.last_update_success = TRUE,
                                                          !.timer = HasListeners(entities', k)]]
               /\ coordinators' = Put(coordinators, c.route_number, k)
               /\ call' = [call EXCEPT ![k] = [@ EXCEPT !.pc = "done",
                                                        !.first_fetch = fetch_kind,
                                                        !.result = "Tracked"]]
  /\ UNCHANGED <<api, probe>>

----------------------------------------------------------------------------
(* sensor.py: the untrack_bus service *)

\* async_handle_untrack_bus up to its first await (async_get_registry).
UntrackBus(k, route_number) ==
  /\ NextCall(k)
  /\ IF route_number = ""
       THEN Finish(k, "untrack", route_number, "MissingRouteNumber")
       ELSE call' = [call EXCEPT ![k] = [@ EXCEPT !.pc = "get_registry",
                                                  !.op = "untrack",
                                                  !.route_number = route_number]]
  /\ UNCHANGED <<coordinators, coord, entities, api, probe>>

\* Variant: a second call takes the request back.
Shutdown_Toggles(c) == [c EXCEPT !.shutdown_requested = ~@, !.timer = FALSE]

\* async_shutdown of the coordinator: no further refresh, the timer cancelled.
Shutdown(c) == [c EXCEPT !.shutdown_requested = TRUE, !.timer = FALSE]

\* A coordinator whose last listener is removed cancels its timer.
Unlisten(c) == [c EXCEPT !.timer = FALSE]

\* Variant: the sensors of every route are removed.
RemovedEntities_All(ents, route_number) == DOMAIN ents

\* The routes whose sensors the loop over SENSOR_TYPES removes: those with
\* the entity ids sensor.bus_<route_number>_<sensor_type>.
RemovedEntities(ents, route_number) == { e \in DOMAIN ents : e = route_number }

\* Variant: the entry is left in the registry.
PopRoute_Keeps(registry, route_number) == registry

\* coordinators.pop(route_number)
PopRoute(registry, route_number) == Remove(registry, route_number)

\* async_handle_untrack_bus from the registry to the await of async_shutdown:
\* the sensors of the route are removed, and if the route is tracked its
\* coordinator is shut down.
UntrackRemove(k) ==
  /\ call[k].pc = "get_registry"
  /\ LET r == call[k].route_number
         removed == RemovedEntities(entities, r)
         unlistened == [x \in DOMAIN coord |->
                          IF \E e \in removed : entities[e] = x
                            THEN Unlisten(coord[x]) ELSE coord[x]]
     IN /\ entities' = [e \in DOMAIN entities \ removed |-> entities[e]]
        /\ IF IsTracked(coordinators, r)
             THEN /\ coord' = [unlistened EXCEPT ![coordinators[r]] = Shutdown(@)]
                  /\ call' = [call EXCEPT ![k] = [@ EXCEPT !.pc = "shutdown"]]
             ELSE /\ coord' = unlistened
                  /\ Finish(k, "untrack", r, "NotTracked")
  /\ UNCHANGED <<coordinators, api, probe>>

\* coordinators.pop(route_number): a KeyError when the key is gone.
UntrackPop(k) ==
  /\ call[k].pc = "shutdown"
  /\ LET r == call[k].route_number
     IN IF r \in DOMAIN coordinators
          THEN /\ coordinators' = PopRoute(coordinators, r)
               /\ Finish(k, "untrack", r, "Untracked")
          ELSE /\ Finish(k, "untrack", r, "KeyError")
               /\ UNCHANGED coordinators
  /\ UNCHANGED <<coord, entities, api, probe>>

----------------------------------------------------------------------------
(* The scheduled refresh (update_interval = one minute) *)

\* The timer fires: unless shutdown was requested, the refresh starts and
\* waits for the HTTP answer.
ScheduledRefresh(c) ==
  /\ c \in DOMAIN coord
  /\ coord[c].timer
  /\ IF coord[c].shutdown_requested
       THEN /\ coord' = [coord EXCEPT ![c] = [@ EXCEPT !.timer = FALSE]]
            /\ UNCHANGED api
       ELSE /\ coord' = [coord EXCEPT ![c] = [@ EXCEPT !.timer = FALSE,
                                                       !.scheduled = TRUE,
                                                       !.fetching = @ + 1]]
            /\ UseSession
  /\ UNCHANGED <<call, coordinators, entities, probe>>

\* Variant: the timer is armed again only after an update that brought data.
Reschedule_OnlyWithData(update, ents, c) ==
  HasListeners(ents, c) /\ update.kind = "return" /\ update.value # EmptyDict

\* Whether the end of a refresh arms the timer again: while the coordinator
\* has listeners, whatever the update returned or raised.
Reschedule(update, ents, c) == HasListeners(ents, c)

\* The HTTP answer of a scheduled refresh arrives.
RefreshDone(c, reply) ==
  /\ c \in DOMAIN coord
  /\ coord[c].scheduled
  /\ LET o == coord[c]
         fetched == GetDirections(o.origin, o.destination, o.route_number, reply)
         update == AsyncUpdateData(fetched)
     IN coord' = [coord EXCEPT ![c] =
          [@ EXCEPT !.fetching = @ - 1,
                    !.last_fetch = FetchKind(fetched),
                    !.scheduled = FALSE,
                    !.data = IF update.kind = "return" THEN update.value ELSE @,
                    !.last_update_success = (update.kind = "return"),
                    !.timer = Reschedule(update, entities, c)]]
  /\ UNCHANGED <<call, coordinators, entities, api, probe>>

----------------------------------------------------------------------------

Next ==
  \/ \E k \in Calls, req \in TrackRequests : TrackBus(k, req)
  \/ \E k \in Calls, reply \in Replies : FirstRefreshDone(k, reply)
  \/ \E k \in Calls, r \in UntrackRoutes : UntrackBus(k, r)
  \/ \E k \in Calls : UntrackRemove(k)
  \/ \E k \in Calls : UntrackPop(k)
  \/ \E c \in Calls : ScheduledRefresh(c)
  \/ \E c \in Calls, reply \in Replies : RefreshDone(c, reply)

Spec == Init /\ [][Next]_vars

\* The services called one at a time: a call arrives only when no other
\* call is between two of its awaits.
Quiet == \A j \in Calls : call[j].pc \in {"idle", "done"}

SeqNext ==
  \/ \E k \in Calls, req \in TrackRequests : Quiet /\ TrackBus(k, req)
  \/ \E k \in Calls, reply \in Replies : FirstRefreshDone(k, reply)
  \/ \E k \in Calls, r \in UntrackRoutes : Quiet /\ UntrackBus(k, r)
  \/ \E k \in Calls : UntrackRemove(k)
  \/ \E k \in Calls : UntrackPop(k)
  \/ \E c \in Calls : ScheduledRefresh(c)
  \/ \E c \in Calls, reply \in Replies : RefreshDone(c, reply)

SeqSpec == Init /\ [][SeqNext]_vars

\* The timer of the event loop fires when it is due.
LiveSpec == Spec /\ \A c \in Calls : WF_vars(ScheduledRefresh(c))

----------------------------------------------------------------------------
(* The services called for one route *)

\* Number of service calls for the one route.
MaxRouteCalls == 3

RouteCalls == 1..MaxRouteCalls

RouteInit ==
  /\ call = [k \in RouteCalls |-> IdleCall]
  /\ coordinators = EmptyDict
  /\ coord = EmptyDict
  /\ entities = EmptyDict
  /\ session = 1
  /\ sessions = <<"open">>
  /\ client = EmptyDict
  /\ probe = NoProbe

\* track_bus and untrack_bus are called for route r1 only, with complete
\* call data.
RouteRequest == [route_number |-> "r1", origin |-> InRange, destination |-> InRange]

RouteNext ==
  \/ \E k \in RouteCalls : TrackBus(k, RouteRequest)
  \/ \E k \in RouteCalls, reply \in Replies : FirstRefreshDone(k, reply)
  \/ \E k \in RouteCalls : UntrackBus(k, "r1")
  \/ \E k \in RouteCalls : UntrackRemove(k)
  \/ \E k \in RouteCalls : UntrackPop(k)
  \/ \E c \in RouteCalls : ScheduledRefresh(c)
  \/ \E c \in RouteCalls, reply \in Replies : RefreshDone(c, reply)

RouteSpec == RouteInit /\ [][RouteNext]_vars

----------------------------------------------------------------------------
(* get_directions called directly *)

CoordinateStrings == {InRange, LatOutOfRange, EmptyStr}

\* get_directions as one call: the arguments, what the HTTP GET ends in, and
\* the outcome; the session is created on the way if there is none.
CallGetDirections(origin, destination, route_number, reply) ==
  /\ probe' = [fn |-> "get_directions", origin |-> origin, destination |-> destination,
               route_number |-> route_number, reply |-> reply,
               outcome |-> GetDirections(origin, destination, route_number, reply)]
  /\ IF Truthy(origin) /\ Truthy(destination) /\ route_number # ""
       THEN UseSession ELSE UNCHANGED api
  /\ UNCHANGED <<call, coordinators, coord, entities>>

ApiNext ==
  \E origin \in CoordinateStrings, destination \in CoordinateStrings,
     route_number \in UntrackRoutes, reply \in AllReplies :
       CallGetDirections(origin, destination, route_number, reply)

ApiSpec == Init /\ [][ApiNext]_vars

----------------------------------------------------------------------------
(* api.py: the methods of GoogleMapsAPI called on one client *)

\* Number of calls of methods of the client one behaviour may make.
MaxClientCalls == 4

ClientCalls == 1..MaxClientCalls

IdleClient == [pc |-> "idle", op |-> "none", session |-> NoSession, result |-> "none"]

\* GoogleMapsAPI.__init__: no session yet.
ClientInit ==
  /\ call = [k \in Calls |-> IdleCall]
  /\ coordinators = EmptyDict
  /\ coord = EmptyDict
  /\ entities = EmptyDict
  /\ session = NoSession
  /\ sessions = <<>>
  /\ client = [k \in ClientCalls |-> IdleClient]
  /\ probe = NoProbe

NextClientCall(k) ==
  /\ client[k].pc = "idle"
  /\ \A j \in DOMAIN client : j < k => client[j].pc # "idle"

\* initialize: _get_session.
Initialize(k) ==
  /\ NextClientCall(k)
  /\ session' = GetSession(session, sessions).ref
  /\ sessions' = GetSession(session, sessions).objs
  /\ client' = [client EXCEPT ![k] = [pc |-> "done", op |-> "initialize",
                                       session |-> session', result |-> "return"]]
  /\ UNCHANGED <<call, coordinators, coord, entities, probe>>

\* get_directions with non-empty arguments up to the await of session.get:
\* the session is taken from _get_session and the request is sent on it.
GetDirectionsBegin(k) ==
  /\ NextClientCall(k)
  /\ session' = GetSession(session, sessions).ref
  /\ sessions' = GetSession(session, sessions).objs
  /\ client' = [client EXCEPT ![k] = [pc |-> "requesting", op |-> "get_directions",
                                       session |-> session', result |-> "none"]]
  /\ UNCHANGED <<call, coordinators, coord, entities, probe>>

\* The HTTP answer arrives; a request on a session that was closed meanwhile
\* fails, and the except clauses make a GoogleMapsAPIError of it.
GetDirectionsEnd(k, reply) ==
  /\ client[k].pc = "requesting"
  /\ client' = [client EXCEPT ![k] =
       [@ EXCEPT !.pc = "done",
                 !.result = IF sessions[client[k].session] = "closed"
                              THEN FetchKind(TranslateError(Raise("ClientError")))
                              ELSE FetchKind(TranslateError(RequestDirections(reply)))]]
  /\ UNCHANGED <<call, coordinators, coord, entities, session, sessions, probe>>

\* cleanup up to the await of session.close(): nothing to do without an open
\* session; otherwise the session starts closing and counts as closed.
CleanupBegin(k) ==
  /\ NextClientCall(k)
  /\ IF session # NoSession /\ sessions[session] = "open"
       THEN /\ sessions' = [sessions EXCEPT ![session] = "closed"]
            /\ client' = [client EXCEPT ![k] = [pc |-> "closing", op |-> "cleanup",
                                                 session |-> session, result |-> "none"]]
       ELSE /\ client' = [client EXCEPT ![k] = [pc |-> "done", op |-> "cleanup",
                                                 session |-> session, result |-> "return"]]
            /\ UNCHANGED sessions
  /\ UNCHANGED <<call, coordinators, coord, entities, session, probe>>

\* cleanup after the await: self._session = None.
CleanupEnd(k) ==
  /\ client[k].pc = "closing"
  /\ session' = NoSession
  /\ client' = [client EXCEPT ![k] = [@ EXCEPT !.pc = "done", !.result = "return"]]
  /\ UNCHANGED <<call, coordinators, coord, entities, sessions, probe>>

ClientNext ==
  \/ \E k \in ClientCalls : Initialize(k)
  \/ \E k \in ClientCalls : GetDirectionsBegin(k)
  \/ \E k \in ClientCalls, reply \in Replies : GetDirectionsEnd(k, reply)
  \/ \E k \in ClientCalls : CleanupBegin(k)
  \/ \E k \in ClientCalls : CleanupEnd(k)

ClientSpec == ClientInit /\ [][ClientNext]_vars

\* The sessions that are open.
OpenSessions == { i \in DOMAIN sessions : sessions[i] = "open" }

----------------------------------------------------------------------------
(* config_flow.py: the check of a "lat,lon" string *)

\* lat, lon = map(float, s.split(',')) succeeds and both are in range.
ValidCoordinates(s) ==
  /\ Len(s) = 2
  /\ s[1].kind = "num" /\ s[2].kind = "num"
  /\ -900 <= s[1].val /\ s[1].val <= 900
  /\ -1800 <= s[2].val /\ s[2].val <= 1800

----------------------------------------------------------------------------
(* _extract_bus_info called directly *)

\* Longest list of steps of a leg.
MaxSteps == 2

\* A second complete TRANSIT step, of another line.
OtherBusStep ==
  [travel_mode |-> "TRANSIT",
   transit_details |->
     [departure_stop |-> [name |-> "Station"],
      line |-> [short_name |-> "7"],
      departure_time |-> [value |-> 1700000900]]]

\* A step without travel_mode.
NoModeStep == [html_instructions |-> "Walk"]

\* A TRANSIT step without departure_time, and one whose epoch is 0.
BusNoTimeStep ==
  [travel_mode |-> "TRANSIT",
   transit_details |-> [departure_stop |-> [name |-> "Central"],
                        line |-> [short_name |-> "42"]]]
BusZeroTimeStep ==
  [travel_mode |-> "TRANSIT",
   transit_details |-> [departure_stop |-> [name |-> "Central"],
                        line |-> [short_name |-> "42"],
                        departure_time |-> [value |-> 0]]]

StepKinds ==
  {WalkStep, BusStep, OtherBusStep, BareBusStep, NoModeStep, BusNoTimeStep,
   BusZeroTimeStep}

StepLists == UNION { [1..n -> StepKinds] : n \in 0..MaxSteps }

\* The legs: with a duration of 600 or 659 seconds or none, and one without
\* steps.
Legs ==
  { [duration |-> [value |-> d], steps |-> steps] : d \in {600, 659}, steps \in StepLists }
  \cup { [steps |-> steps] : steps \in StepLists }
  \cup { [duration |-> [value |-> 600]] }

\* The responses _extract_bus_info is called with.
Responses ==
  { [status |-> "OK", routes |-> << [legs |-> <<leg>>] >>] : leg \in Legs }
  \cup { BodyOkNoRoutes, [status |-> "OK"],
         [status |-> "OK", routes |-> << [summary |-> "A1"] >>],
         [status |-> "OK", routes |-> << [legs |-> <<>>] >>] }

\* _extract_bus_info as one call: the response and the dict returned.
CallExtractBusInfo(response) ==
  /\ probe' = [fn |-> "_extract_bus_info", response |-> response,
               outcome |-> Return(ExtractBusInfo(response))]
  /\ UNCHANGED <<call, coordinators, coord, entities, api>>

ExtractNext == \E response \in Responses : CallExtractBusInfo(response)

ExtractSpec == Init /\ [][ExtractNext]_vars

----------------------------------------------------------------------------
(* config_flow.py: the user step *)

\* map(float, s.split(',')) unpacks into lat, lon: two fields, both numbers.
Parses(s) == Len(s) = 2 /\ s[1].kind = "num" /\ s[2].kind = "num"

\* Variant: only the latitude is checked.
OutOfRange_LatitudeOnly(s) == ~(-900 <= s[1].val /\ s[1].val <= 900)

\* not (-90 <= lat <= 90) or not (-180 <= lon <= 180)
OutOfRange(s) ==
  ~(-900 <= s[1].val /\ s[1].val <= 900) \/ ~(-1800 <= s[2].val /\ s[2].val <= 1800)

\* The errors dict with "invalid_coordinates" for the given fields.
Errors(fields) == [field \in fields |-> "invalid_coordinates"]

\* async_step_user: the loop over origin and destination, left by the first
\* ValueError, which puts the error on both fields.
StepUser(user_input) ==
  IF user_input = None THEN [type |-> "form", errors |-> EmptyDict]
  ELSE IF ~Parses(user_input.origin) \/ ~Parses(user_input.destination)
    THEN [type |-> "form", errors |-> Errors({"origin", "destination"})]
  ELSE LET errors == Errors({ field \in {"origin", "destination"} :
                                OutOfRange(user_input[field]) })
       IN IF errors = EmptyDict
            THEN [type |-> "create_entry", data |-> user_input]
            ELSE [type |-> "form", errors |-> errors]

\* What the user types into a coordinate field: "52.1,4.1", "95,0",
\* "52.1,-181", "", "abc,4.1", "52.1", "52.1,4.1,0", "52.1,", "90,180",
\* "-90,-180", "90.1,0", "0,180.1".
FormStrings ==
  {InRange, LatOutOfRange, LonOutOfRange, EmptyStr, <<Txt, Num(41)>>, <<Num(521)>>,
   <<Num(521), Num(41), Num(0)>>, <<Num(521), Blank>>, <<Num(900), Num(1800)>>,
   <<Num(-900), Num(-1800)>>, <<Num(901), Num(0)>>, <<Num(0), Num(1801)>>}

UserInputs ==
  { [origin |-> o, destination |-> d] : o \in FormStrings, d \in FormStrings }
  \cup {None}

\* async_step_user as one call: the input and the flow result.
CallStepUser(user_input) ==
  /\ probe' = [fn |-> "async_step_user", user_input |-> user_input,
               outcome |-> StepUser(user_input)]
  /\ UNCHANGED <<call, coordinators, coord, entities, api>>

FlowNext == \E user_input \in UserInputs : CallStepUser(user_input)

FlowSpec == Init /\ [][FlowNext]_vars

----------------------------------------------------------------------------
(* __init__.py: async_setup_entry *)

\* Variant: the constructor takes hass and the entry data, and requires the
\* API key of the data.
NewClient_TakesHassAndData(args) ==
  IF Len(args) # 2 THEN Raise("TypeError")
  ELSE IF Get(args[2], "api_key", "") = "" THEN Raise("ValueError")
  ELSE Return([api_key |-> args[2].api_key])

\* GoogleMapsAPI(*args): __init__ takes one argument, the API key, which
\* must not be empty.
NewClient(args) ==
  IF Len(args) # 1 THEN Raise("TypeError")
  ELSE IF args[1] = "" THEN Raise("ValueError")
  ELSE Return([api_key |-> args[1]])

\* The services async_setup_entry registers.
MainServices == {"reload", "get_bus_info", "update_bus_route"}

\* What async_setup_entry leaves behind: its result, hass.data[DOMAIN] (None
\* when hass.data has no such key), the session of the client it made, and
\* the services registered.
SetupOutcome(result, hass_data, made, services) ==
  [result |-> result, hass_data |-> hass_data, session |-> made.ref,
   sessions |-> made.objs, services |-> services]

\* async_setup_entry: the client is constructed and initialized, stored in
\* hass.data with an empty bus_routes, the platforms are set up and the
\* services registered; any exception on the way is logged and False is
\* returned.  faults tells which of the awaited or called operations raise.
SetupEntry(hass_data, entry, faults) ==
  LET constructed == NewClient(<<"hass", entry.data>>)
      no_session == [ref |-> NoSession, objs |-> <<>>]
      made == GetSession(NoSession, <<>>)
      stored == Put(IF hass_data = None THEN EmptyDict ELSE hass_data,
                    entry.entry_id,
                    [api |-> constructed.value, bus_routes |-> EmptyDict])
  IN IF constructed.kind = "raise"
       THEN SetupOutcome(FALSE, hass_data, no_session, {})
     ELSE IF faults.initialize
       THEN SetupOutcome(FALSE, hass_data, no_session, {})
     ELSE IF faults.forward
       THEN SetupOutcome(FALSE, stored, made, {})
     ELSE IF faults.register
       THEN SetupOutcome(FALSE, stored, made, {})
     ELSE SetupOutcome(TRUE, stored, made, MainServices)

\* The config entries: an id and the data of the form.
ConfigEntries ==
  { [entry_id |-> id,
     data |-> [api_key |-> key, origin |-> o, destination |-> InRange,
               route_number |-> "r1"]] :
      id \in {"e1", "e2"}, key \in {"", "key"}, o \in CoordinateStrings }

\* Which of aiohttp.ClientSession(), async_forward_entry_setups and
\* async_register raise.
Faults == [initialize : BOOLEAN, forward : BOOLEAN, register : BOOLEAN]

\* No client yet, and hass.data without the integration's key.
SetupInit ==
  /\ call = [k \in Calls |-> IdleCall]
  /\ coordinators = EmptyDict
  /\ coord = EmptyDict
  /\ entities = EmptyDict
  /\ session = NoSession
  /\ sessions = <<>>
  /\ client = EmptyDict
  /\ probe = NoProbe

\* async_setup_entry as one call, for a new client: the entry, the faults,
\* hass.data[DOMAIN] before, and what the call leaves behind.
CallSetupEntry(hass_data, entry, faults) ==
  LET outcome == SetupEntry(hass_data, entry, faults)
  IN /\ probe' = [fn |-> "async_setup_entry", entry |-> entry, faults |-> faults,
                   before |-> hass_data, result |-> outcome.result,
                   hass_data |-> outcome.hass_data, services |-> outcome.services]
     /\ session' = outcome.session
     /\ sessions' = outcome.sessions
     /\ UNCHANGED <<call, coordinators, coord, entities, client>>

SetupNext ==
  \E hass_data \in {None, EmptyDict}, entry \in ConfigEntries, faults \in Faults :
    CallSetupEntry(hass_data, entry, faults)

SetupSpec == SetupInit /\ [][SetupNext]_vars

----------------------------------------------------------------------------
(* Properties *)

\* The coordinators that are constructed and not shut down.
Live == { c \in DOMAIN coord : ~coord[c].shutdown_requested }

\* C1: at most one Coordinator per route: two track calls for one route, the
\* second arriving while the first awaits its first refresh, never leave two
\* constructed Coordinators for that route.
C1_OneCoordinatorPerRoute ==
  \A a \in Live, b \in Live :
    coord[a].route_number = coord[b].route_number => a = b

\* C3: a valid track call for a route that is in the registry ends as
\* AlreadyTracked at once: no coordinator is constructed, no fetch starts, and
\* the registry keeps the coordinator it had.
C3_SecondTrackRejected ==
  [][\A k \in Calls, req \in TrackRequests :
       (/\ TrackBus(k, req)
        /\ ~MissingParameters(req)
        /\ req.route_number \in DOMAIN coordinators)
       => /\ call'[k].pc = "done"
          /\ call'[k].result = "AlreadyTracked"
          /\ coord' = coord
          /\ coordinators' = coordinators
          /\ entities' = entities
          /\ session' = session]_vars

\* C3 witness: a second track call for a tracked route has ended as
\* AlreadyTracked while the first call's coordinator is in the registry.
C3_Witness ==
  \E k \in Calls, j \in Calls :
    /\ j < k
    /\ call[k].op = "track" /\ call[k].result = "AlreadyTracked"
    /\ call[j].op = "track" /\ call[j].result = "Tracked"
    /\ call[j].route_number = call[k].route_number
    /\ call[k].route_number \in DOMAIN coordinators
    /\ coordinators[call[k].route_number] = j
    /\ DOMAIN coord = {j}

\* C4: with the services called one after the other from an empty registry,
\* a successful track of a route followed at once by untrack of that route
\* leaves the registry empty and the coordinator shut down.
C4_TrackThenUntrack ==
  (/\ call[1].op = "track" /\ call[1].pc = "done" /\ call[1].result = "Tracked"
   /\ call[2].op = "untrack" /\ call[2].pc = "done"
   /\ call[2].route_number = call[1].route_number
   /\ \A j \in Calls : j > 2 => call[j].pc = "idle")
  => /\ coordinators = EmptyDict
     /\ entities = EmptyDict
     /\ call[2].result = "Untracked"
     /\ coord[1].shutdown_requested
     /\ ~coord[1].timer

\* C4 witness: track then untrack of the same route have both ended.
C4_Witness ==
  /\ call[1].op = "track" /\ call[1].result = "Tracked"
  /\ call[2].op = "untrack" /\ call[2].result = "Untracked"
  /\ call[2].route_number = call[1].route_number
  /\ coordinators = EmptyDict
  /\ coord[1].shutdown_requested

\* C5: the steps of an untrack call for a route that is not in the registry
\* (up to and including its check of the registry) leave the registry and
\* every coordinator as they were, and the call ends as NotTracked.
C5_UntrackAbsentIsNoOp ==
  [][\A k \in Calls :
       (/\ call[k].pc \in {"idle", "get_registry"}
        /\ call'[k] # call[k]
        /\ call'[k].op = "untrack"
        /\ call'[k].route_number # ""
        /\ call'[k].route_number \notin DOMAIN coordinators)
       => /\ coordinators' = coordinators
          /\ coord' = coord
          /\ entities' = entities
          /\ call'[k].pc = "done" => call'[k].result = "NotTracked"]_vars

\* C5 witness: untrack of an absent route has ended as NotTracked while
\* another route is tracked and its coordinator is polling.
C5_Witness ==
  \E k \in Calls, c \in DOMAIN coord :
    /\ call[k].op = "untrack" /\ call[k].result = "NotTracked"
    /\ call[k].route_number \notin DOMAIN coordinators
    /\ coord[c].route_number \in DOMAIN coordinators
    /\ coordinators[coord[c].route_number] = c
    /\ coord[c].timer
    /\ ~coord[c].shutdown_requested

\* A failed fetch: get_directions raised.
FetchFailed(c) == coord[c].last_fetch \notin {"none", "return"}

\* C6: a coordinator whose last refresh ended with get_directions failing and
\* that has no fetch in flight holds the empty snapshot, and its update
\* operation reported success (no error left it).
C6_FailedRefreshResetsSnapshot ==
  \A c \in DOMAIN coord :
    (FetchFailed(c) /\ coord[c].fetching = 0)
    => /\ coord[c].data = EmptyDict
       /\ coord[c].last_update_success
       /\ ~coord[c].scheduled

\* C6 witness: a tracked coordinator whose first refresh succeeded is back at
\* rest with the empty snapshot after a scheduled refresh that failed.
C6_Witness ==
  \E c \in DOMAIN coord :
    /\ FetchFailed(c) /\ coord[c].fetching = 0
    /\ coord[c].data = EmptyDict
    /\ coord[c].timer
    /\ call[c].result = "Tracked" /\ call[c].first_fetch = "return"

\* Untrack has stopped the coordinator: it is shut down or its sensors are
\* removed.
Stopped(c) == coord[c].shutdown_requested \/ ~HasListeners(entities, c)

C8_OutOfRangeRejected ==
  \A c \in DOMAIN coord :
    ValidCoordinates(coord[c].origin) /\ ValidCoordinates(coord[c].destination)

\* C9: a track call whose first refresh ended in a failed fetch reports the
\* failure and does not put its coordinator in the registry.
C9_FirstRefreshFailureIsFatal ==
  \A k \in Calls :
    (/\ call[k].op = "track" /\ call[k].pc = "done"
     /\ call[k].first_fetch \notin {"none", "return"})
    => /\ call[k].result = "ConfigEntryNotReady"
       /\ \A r \in DOMAIN coordinators : coordinators[r] # k

\* A reply that makes the fetch succeed: a 2xx answer whose body has status OK.
GoodReply(reply) ==
  /\ reply.transport = "2xx"
  /\ "status" \in DOMAIN reply.body
  /\ reply.body.status = "OK"

WellFormed(response) ==
  /\ "routes" \in DOMAIN response /\ response.routes # <<>>
  /\ "legs" \in DOMAIN response.routes[1] /\ response.routes[1].legs # <<>>
  /\ "steps" \in DOMAIN response.routes[1].legs[1]
  /\ \A i \in DOMAIN response.routes[1].legs[1].steps :
       "travel_mode" \in DOMAIN response.routes[1].legs[1].steps[i]

\* The positions of the TRANSIT steps of a well-formed response.
TransitSteps(response) ==
  { i \in DOMAIN response.routes[1].legs[1].steps :
      response.routes[1].legs[1].steps[i].travel_mode = "TRANSIT" }

\* The first TRANSIT step, in list order.
FirstTransitStep(response) ==
  response.routes[1].legs[1].steps[Min(TransitSteps(response))]

\* C11: _extract_bus_info never raises; it returns the empty snapshot for a
\* response without routes, without a TRANSIT step or with any other
\* structural mismatch, such as a first TRANSIT step without transit details;
\* otherwise stop name and line number are those of the first TRANSIT step.
C11_ExtractNeverFails ==
  probe.fn = "_extract_bus_info"
  => /\ probe.outcome.kind = "return"
     /\ IF \/ ~WellFormed(probe.response)
           \/ TransitSteps(probe.response) = {}
           \/ "transit_details" \notin DOMAIN FirstTransitStep(probe.response)
          THEN probe.outcome.value = EmptyDict
          ELSE LET details == FirstTransitStep(probe.response).transit_details
               IN /\ probe.outcome.value # EmptyDict
                  /\ probe.outcome.value.stop_name = details.departure_stop.name
                  /\ probe.outcome.value.line_number = details.line.short_name

\* The response has a TRANSIT step with transit details.
ResponseHasBus ==
  /\ probe.fn = "_extract_bus_info"
  /\ WellFormed(probe.response)
  /\ TransitSteps(probe.response) # {}
  /\ "transit_details" \in DOMAIN FirstTransitStep(probe.response)

\* C12: for a response with a TRANSIT step, the snapshot has a duration in
\* minutes that is the leg's duration in seconds divided by 60, rounded
\* down, when the leg has a duration, and none otherwise; its next departure
\* is not None when the step has a departure epoch other than 0.
C12_DurationAndDeparture ==
  ResponseHasBus
  => LET leg == probe.response.routes[1].legs[1]
         details == FirstTransitStep(probe.response).transit_details
         snapshot == probe.outcome.value
         others == DOMAIN snapshot \ {"stop_name", "line_number", "next_departure"}
     IN /\ IF "duration" \in DOMAIN leg
              THEN \E key \in others : snapshot[key] = leg.duration.value \div 60
              ELSE \A key \in others : snapshot[key] = None
        /\ ("departure_time" \in DOMAIN details /\ details.departure_time.value # 0)
             => snapshot.next_departure # None

C14_ResultDiscardedAfterShutdown ==
  [][\A c \in DOMAIN coord :
       (coord[c].shutdown_requested /\ coord'[c].fetching < coord[c].fetching)
       => coord'[c].data = coord[c].data]_vars

\* The coordinator has completed a refresh.
Refreshed(c) == coord[c].last_fetch # "none" /\ coord[c].data # None

C16_AtMostOneOpenSession ==
  /\ Cardinality(OpenSessions) <= 1
  /\ \A i \in OpenSessions : session = i

\* C17: the user step creates an entry exactly when origin and destination
\* both parse as "lat,lon" with the latitude in [-90, 90] and the longitude
\* in [-180, 180]; otherwise it creates none and shows the form again with
\* the error invalid_coordinates on every field that does not (on those
\* fields only when both parse).
C17_EntryIffValid ==
  (probe.fn = "async_step_user" /\ probe.user_input # None)
  => LET offending == { field \in {"origin", "destination"} :
                          ~ValidCoordinates(probe.user_input[field]) }
         both_parse == Parses(probe.user_input.origin)
                         /\ Parses(probe.user_input.destination)
     IN IF offending = {}
          THEN probe.outcome = [type |-> "create_entry", data |-> probe.user_input]
          ELSE /\ probe.outcome.type = "form"
               /\ offending \subseteq DOMAIN probe.outcome.errors
               /\ \A field \in DOMAIN probe.outcome.errors :
                    probe.outcome.errors[field] = "invalid_coordinates"
               /\ both_parse => DOMAIN probe.outcome.errors = offending

\* C17 witness: the form is shown again for an origin out of range and a
\* destination in range, with the error on the origin only.
C17_Witness ==
  /\ probe.fn = "async_step_user"
  /\ probe.user_input = [origin |-> LatOutOfRange, destination |-> InRange]
  /\ probe.outcome = [type |-> "form", errors |-> Errors({"origin"})]

\* C18: a track step whose call data lack the route number, the origin or
\* the destination (absent or empty) ends the call at once as rejected:
\* no coordinator is constructed, no fetch is started, no session is taken
\* and the registry and the sensors are as before.
C18_MissingFieldRejected ==
  [][\A k \in DOMAIN call, req \in TrackRequests :
       (/\ TrackBus(k, req)
        /\ (req.route_number = "" \/ req.origin = EmptyStr \/ req.destination = EmptyStr))
       => /\ call'[k].pc = "done"
          /\ call'[k].result = "MissingParameters"
          /\ coord' = coord
          /\ coordinators' = coordinators
          /\ entities' = entities
          /\ session' = session /\ sessions' = sessions]_vars

\* C18 witness: a track call for route r1 without origin or destination has
\* been rejected, no coordinator was constructed for it, and the registry
\* holds the route tracked before.
C18_Witness ==
  \E k \in DOMAIN call :
    /\ call[k].op = "track" /\ call[k].result = "MissingParameters"
    /\ call[k].route_number = "r1"
    /\ k \notin DOMAIN coord
    /\ coordinators # EmptyDict

\* C19: no orphaned coordinators: when no service call is between two of
\* its awaits, every coordinator that is constructed and not shut down is
\* the value the registry holds under its own route number.
C19_NoOrphanedCoordinator ==
  (\A k \in DOMAIN call : call[k].pc \in {"idle", "done"})
  => \A c \in Live :
       /\ coord[c].route_number \in DOMAIN coordinators
       /\ coordinators[coord[c].route_number] = c

\* C20: untrack calls for the same tracked route that overlap at the await
\* of async_shutdown end without an unhandled error: each ends as Untracked
\* or as NotTracked, none on a missing key.
C20_ConcurrentUntrack ==
  \A k \in DOMAIN call :
    (call[k].op = "untrack" /\ call[k].pc = "done")
    => call[k].result \in {"Untracked", "NotTracked", "MissingRouteNumber"}

\* C21: cleanup overlapping with get_directions leaks no session: once every
\* call of the client has ended, each session that is open is the one
\* _session refers to.
C21_NoLeakedSession ==
  (\A k \in DOMAIN client : client[k].pc \in {"idle", "done"})
  => \A i \in OpenSessions : session = i

====
